---- MODULE Spec2Model ----
(***************************************************************************)
(* Model of streamlit_authenticator.authenticate.Authenticate: the         *)
(* credential store, the preauthorized-email list, the per-session         *)
(* st.session_state, the re-authentication cookie and the widgets that     *)
(* read and write them (login, logout, register_user, ...).                *)
(***************************************************************************)
EXTENDS Integers, Sequences, FiniteSets, TLC

(***************************************************************************)
(* Bounds of the model.                                                    *)
(***************************************************************************)
MaxTime == 2          \* the clock runs over 0..MaxTime
MaxSalt == 1          \* bcrypt salts drawn from 1..MaxSalt
MaxPreauth == 2       \* length of the configured preauthorized-email list
MaxInitUsers == 2     \* number of entries of the configured credentials

(***************************************************************************)
(* Values.  A username is a sequence of characters, so that str.lower()    *)
(* acts character by character.  Python's None is NoneU among usernames    *)
(* (no text holds a several-letter element) and NoneS among other texts.   *)
(***************************************************************************)
NoneU == <<"None">>
NoneS == "<None>"

\* what the text inputs of the forms may hold
UsernameInputs == {<<>>, <<"a">>, <<"A">>}
PasswordInputs == {"", "p1", "p2"}

\* callers that may run register_user at the same time on one store
Callers == {"c1", "c2"}

\* the HS256 key given to the constructor, and some other key
key == "k"
OtherKey == "x"

\* cookie_expiry_days given to the constructor, in clock units
cookie_expiry_days == 1

LowerChar(c) ==
  CASE c = "A" -> "a"
    [] c = "B" -> "b"
    [] OTHER -> c

\* str.lower()
Lower(u) == [i \in DOMAIN u |-> LowerChar(u[i])]

(***************************************************************************)
(* Password hashes.  A bcrypt hash embeds its salt; what it hides is kept  *)
(* in `text` and is read by checkpw alone.  A stored value of another      *)
(* format (a plaintext left in the configuration) has fmt "plain".         *)
(***************************************************************************)
Salts == 1..MaxSalt

\* Hasher([password]).generate()[0], with the salt bcrypt.gensalt() drew
HasherGenerate(password, salt) ==
  [fmt |-> "bcrypt", salt |-> salt, text |-> password]

PlainStored(password) == [fmt |-> "plain", salt |-> 0, text |-> password]

\* bcrypt.checkpw raises ValueError("Invalid salt") on such a stored value
CheckpwRaises(stored) == stored.fmt # "bcrypt"

\* bcrypt.checkpw(password, stored) on a well-formed hash
Checkpw(password, stored) == stored.text = password

(***************************************************************************)
(* Cookie values.  A JWT carries its claims and the key under which its    *)
(* signature verifies ("tampered": under none, the payload was altered).   *)
(***************************************************************************)
ClaimNames == {"name", "username", "exp_date"}

NoToken ==
  [fmt |-> "absent", sig |-> "", claims |-> {}, name |-> NoneS,
   username |-> NoneU, exp_date |-> 0]

Garbage ==
  [fmt |-> "garbage", sig |-> "", claims |-> {}, name |-> NoneS,
   username |-> NoneU, exp_date |-> 0]

\* jwt.encode(payload, k, algorithm="HS256")
JwtEncode(name, username, exp_date, k) ==
  [fmt |-> "jwt", sig |-> k, claims |-> ClaimNames, name |-> name,
   username |-> username, exp_date |-> exp_date]

\* a signed token that lacks the claim c
Lacking(tok, c) ==
  [tok EXCEPT !.claims = @ \ {c},
              !.name = IF c = "name" THEN NoneS ELSE @,
              !.username = IF c = "username" THEN NoneU ELSE @,
              !.exp_date = IF c = "exp_date" THEN 0 ELSE @]

\* jwt.decode(token, key, algorithms=["HS256"]) returns the payload
JwtDecodes(tok) == tok.fmt = "jwt" /\ tok.sig = key

(***************************************************************************)
(* State.                                                                  *)
(***************************************************************************)
VARIABLES
  credentials,      \* self.credentials["usernames"]: key -> record
  preauthorized,    \* self.preauthorized["emails"], a list
  session_state,    \* st.session_state of the caller session
  cookie,           \* what cookie_manager.get(cookie_name) returns
  now,              \* datetime.utcnow().timestamp()
  ret,              \* the last call and how it ended
  pc,               \* per caller: position inside register_user
  reg               \* per caller: the submission register_user works on

vars == <<credentials, preauthorized, session_state, cookie, now, ret, pc, reg>>

\* {key.lower(): value for key, value in credentials["usernames"].items()}
RECURSIVE LowerKeys(_)
LowerKeys(items) ==
  IF items = <<>> THEN <<>>
  ELSE LET n == Len(items)
           rest == LowerKeys(SubSeq(items, 1, n - 1))
           k == Lower(items[n][1])
       IN [x \in DOMAIN rest \cup {k} |-> IF x = k THEN items[n][2] ELSE rest[x]]

(***************************************************************************)
(* Construction.                                                           *)
(***************************************************************************)
\* records the configuration file may hold
ConfigRecords ==
  { [name |-> "Ann", password |-> HasherGenerate("p1", 1), email |-> "e1"],
    [name |-> "Bob", password |-> PlainStored("p1"), email |-> "e2"] }

ConfigKeys == {<<"a">>, <<"A">>}

\* the items of credentials["usernames"] as given to the constructor
ConfigItems ==
  { items \in UNION { [1..n -> ConfigKeys \X ConfigRecords] : n \in 0..MaxInitUsers } :
      \A i, j \in DOMAIN items : i # j => items[i][1] # items[j][1] }

\* the preauthorized["emails"] list given to the constructor
ConfigPreauthorized == UNION { [1..n -> {"e1"}] : n \in 0..MaxPreauth }

FreshSession ==
  [name |-> NoneS, authentication_status |-> "None", username |-> NoneU,
   logout |-> FALSE]

Returned(op) == [op |-> op, exc |-> "none", msg |-> ""]
Raised(op, exc, msg) == [op |-> op, exc |-> exc, msg |-> msg]

NoSubmission ==
  [email |-> "", username |-> <<>>, name |-> "", password |-> "",
   preauthorization |-> FALSE, salt |-> 0]

Init ==
  /\ \E items \in ConfigItems : credentials = LowerKeys(items)
  /\ preauthorized \in ConfigPreauthorized
  /\ session_state = FreshSession
  /\ cookie = NoToken
  /\ now = 0
  /\ ret = Returned("__init__")
  /\ pc = [c \in Callers |-> "idle"]
  /\ reg = [c \in Callers |-> NoSubmission]

(***************************************************************************)
(* The environment: the clock, and the browser that holds the cookie.      *)
(***************************************************************************)
Tick ==
  /\ now < MaxTime
  /\ now' = now + 1
  /\ UNCHANGED <<credentials, preauthorized, session_state, cookie, ret, pc, reg>>

\* cookie values a browser may present that this session did not set itself
ClientTokens ==
  LET signed == JwtEncode("Bob", <<"b">>, MaxTime + 1, key)
  IN {NoToken, Garbage,
      JwtEncode("Bob", <<"b">>, MaxTime + 1, OtherKey),
      JwtEncode("Bob", <<"b">>, MaxTime + 1, "tampered")}
     \cup {Lacking(signed, c) : c \in ClaimNames}
     \cup {JwtEncode("Bob", <<"b">>, 1, key)}

ClientCookie(tok) ==
  /\ cookie' = tok
  /\ UNCHANGED <<credentials, preauthorized, session_state, now, ret, pc, reg>>

\* the browser opens a new Streamlit session: st.session_state starts empty
\* and the constructor fills it (lines 69-76); the cookie stays in the browser
NewSession ==
  /\ session_state' = FreshSession
  /\ ret' = Returned("__init__")
  /\ UNCHANGED <<credentials, preauthorized, cookie, now, pc, reg>>

(***************************************************************************)
(* login                                                                   *)
(***************************************************************************)
\* _check_cookie comparing the expiry with >= in place of >
CheckCookieNonStrict(ss, tok) ==
  LET same == [ss |-> ss, exc |-> "none"]
  IN IF tok.fmt = "absent" THEN same
     ELSE IF ~JwtDecodes(tok) THEN same
     ELSE IF ss.logout THEN same
     ELSE IF "exp_date" \notin tok.claims THEN [ss |-> ss, exc |-> "KeyError"]
     ELSE IF ~(tok.exp_date >= now) THEN same
     ELSE IF "username" \notin tok.claims THEN same
     ELSE IF "name" \notin tok.claims THEN [ss |-> ss, exc |-> "KeyError"]
     ELSE [ss |-> [ss EXCEPT !.name = tok.name,
                             !.username = tok.username,
                             !.authentication_status = "True"],
           exc |-> "none"]

\* _check_cookie that never binds the username of the token
CheckCookieNoUsername(ss, tok) ==
  LET same == [ss |-> ss, exc |-> "none"]
  IN IF tok.fmt = "absent" THEN same
     ELSE IF ~JwtDecodes(tok) THEN same
     ELSE IF ss.logout THEN same
     ELSE IF "exp_date" \notin tok.claims THEN [ss |-> ss, exc |-> "KeyError"]
     ELSE IF ~(tok.exp_date > now) THEN same
     ELSE IF "username" \notin tok.claims THEN same
     ELSE IF "name" \notin tok.claims THEN [ss |-> ss, exc |-> "KeyError"]
     ELSE [ss |-> [ss EXCEPT !.name = tok.name,
                             !.authentication_status = "True"],
           exc |-> "none"]

\* _check_cookie that honours the token after a logout too
CheckCookieIgnoreLogout(ss, tok) ==
  LET same == [ss |-> ss, exc |-> "none"]
  IN IF tok.fmt = "absent" THEN same
     ELSE IF ~JwtDecodes(tok) THEN same
     ELSE IF "exp_date" \notin tok.claims THEN [ss |-> ss, exc |-> "KeyError"]
     ELSE IF ~(tok.exp_date > now) THEN same
     ELSE IF "username" \notin tok.claims THEN same
     ELSE IF "name" \notin tok.claims THEN [ss |-> ss, exc |-> "KeyError"]
     ELSE [ss |-> [ss EXCEPT !.name = tok.name,
                             !.username = tok.username,
                             !.authentication_status = "True"],
           exc |-> "none"]

\* _check_cookie on the session ss: the session it leaves and the exception
CheckCookie(ss, tok) ==
  LET same == [ss |-> ss, exc |-> "none"]
  IN IF tok.fmt = "absent" THEN same
     ELSE IF ~JwtDecodes(tok) THEN same
     ELSE IF ss.logout THEN same
     ELSE IF "exp_date" \notin tok.claims THEN [ss |-> ss, exc |-> "KeyError"]
     ELSE IF ~(tok.exp_date > now) THEN same
     ELSE IF "username" \notin tok.claims THEN same
     ELSE IF "name" \notin tok.claims THEN [ss |-> ss, exc |-> "KeyError"]
     ELSE [ss |-> [ss EXCEPT !.name = tok.name,
                             !.username = tok.username,
                             !.authentication_status = "True"],
           exc |-> "none"]

\* _set_exp_date
SetExpDate == now + cookie_expiry_days

\* _token_encode putting the lowercased username in the payload
TokenEncodeLowered(ss, exp_date) ==
  JwtEncode(ss.name, Lower(ss.username), exp_date, key)

\* _token_encode
TokenEncode(ss, exp_date) == JwtEncode(ss.name, ss.username, exp_date, key)

\* _check_credentials(inplace=True): the session and the cookie it leaves
CheckCredentialsInplace(ss, tok, username, password) ==
  IF username \in DOMAIN credentials
  THEN IF CheckpwRaises(credentials[username].password)
       THEN [ss |-> ss, cookie |-> tok]
       ELSE IF Checkpw(password, credentials[username].password)
       THEN LET named == [ss EXCEPT !.name = credentials[username].name]
            IN [ss |-> [named EXCEPT !.authentication_status = "True"],
                cookie |-> TokenEncode(named, SetExpDate)]
       ELSE [ss |-> [ss EXCEPT !.authentication_status = "False"], cookie |-> tok]
  ELSE [ss |-> [ss EXCEPT !.authentication_status = "False"], cookie |-> tok]

\* _check_credentials(inplace=False): True, or False/None
CheckCredentials(username, password) ==
  /\ username \in DOMAIN credentials
  /\ ~CheckpwRaises(credentials[username].password)
  /\ Checkpw(password, credentials[username].password)

Login(username, password, submitted) ==
  /\ IF session_state.authentication_status = "True"
     THEN /\ ret' = Returned("login")
          /\ UNCHANGED <<session_state, cookie>>
     ELSE LET cc == CheckCookie(session_state, cookie)
          IN IF cc.exc # "none"
             THEN /\ ret' = Raised("login", cc.exc, "")
                  /\ UNCHANGED <<session_state, cookie>>
             ELSE IF cc.ss.authentication_status = "True"
             THEN /\ session_state' = cc.ss
                  /\ ret' = Returned("login")
                  /\ UNCHANGED cookie
             ELSE LET form == [cc.ss EXCEPT !.username = username]
                      done == IF submitted
                              THEN CheckCredentialsInplace(form, cookie, username, password)
                              ELSE [ss |-> form, cookie |-> cookie]
                  IN /\ session_state' = done.ss
                     /\ cookie' = done.cookie
                     /\ ret' = Returned(IF submitted THEN "login_submit" ELSE "login")
  /\ UNCHANGED <<credentials, preauthorized, now, pc, reg>>

(***************************************************************************)
(* logout                                                                  *)
(***************************************************************************)
\* logout that clears the session and leaves the cookie in the browser
LogoutKeepCookie ==
  /\ session_state.authentication_status = "True"
  /\ session_state' = [session_state EXCEPT !.logout = TRUE,
                                            !.name = NoneS,
                                            !.username = NoneU,
                                            !.authentication_status = "None"]
  /\ ret' = Returned("logout")
  /\ UNCHANGED <<credentials, preauthorized, cookie, now, pc, reg>>

\* the button is drawn for an authenticated session (__init__.py, 24-25)
Logout ==
  /\ session_state.authentication_status = "True"
  /\ cookie' = NoToken
  /\ session_state' = [session_state EXCEPT !.logout = TRUE,
                                            !.name = NoneS,
                                            !.username = NoneU,
                                            !.authentication_status = "None"]
  /\ ret' = Returned("logout")
  /\ UNCHANGED <<credentials, preauthorized, now, pc, reg>>

(***************************************************************************)
(* register_user                                                           *)
(***************************************************************************)
\* Validator.validate_username: [A-Za-z0-9_-]{1,20}
ValidateUsername(username) ==
  /\ Len(username) \in 1..20
  /\ \A i \in DOMAIN username : username[i] \in {"a", "A", "b", "B"}

\* Validator.validate_name: 1 to 50 letters, spaces or hyphens
ValidateName(name) == name \in {"Ann", "Bob"}

\* Validator.validate_email: an address
ValidateEmail(email) == email \in {"e1", "e2"}

\* what the register form submits: every well-formed submission, and each
\* of them with one field spoiled (no hash is drawn for those)
GoodSubmissions ==
  [cgu_accepted : {TRUE}, email : {"e1"}, username : {<<"a">>, <<"A">>},
   name : {"Ann"}, password : {"p1"}, password_repeat : {"p1"},
   preauthorization : BOOLEAN, salt : Salts]

Spoiled(sub) ==
  { [sub EXCEPT !.cgu_accepted = FALSE],
    [sub EXCEPT !.email = ""],
    [sub EXCEPT !.email = "bad"],
    [sub EXCEPT !.username = <<>>],
    [sub EXCEPT !.name = ""],
    [sub EXCEPT !.name = "B0b"],
    [sub EXCEPT !.password = ""],
    [sub EXCEPT !.password_repeat = "p2"] }

Submissions ==
  GoodSubmissions \cup UNION { Spoiled(sub) : sub \in {g \in GoodSubmissions : g.salt = 1} }

\* the parameters of _register_credentials
Registration(sub) ==
  [email |-> sub.email, username |-> sub.username, name |-> sub.name,
   password |-> sub.password, preauthorization |-> sub.preauthorization,
   salt |-> sub.salt]

Emails(list) == {list[i] : i \in DOMAIN list}

\* list.remove(email): the first occurrence goes
RemoveFirst(list, email) ==
  LET i == CHOOSE k \in DOMAIN list :
             list[k] = email /\ \A j \in 1..(k - 1) : list[j] # email
  IN SubSeq(list, 1, i - 1) \o SubSeq(list, i + 1, Len(list))

\* the form checks without the lookup of the username in the store
RegisterFormErrorNoLookup(sub) ==
  IF ~sub.cgu_accepted THEN "cgu"
  ELSE IF sub.email = "" \/ sub.username = <<>> \/ sub.name = "" \/ sub.password = ""
  THEN "missing"
  ELSE IF sub.password # sub.password_repeat THEN "mismatch"
  ELSE ""

\* the checks of register_user before it reads the preauthorized list:
\* the message of the RegisterError raised, or "" to go on
RegisterFormError(sub) ==
  IF ~sub.cgu_accepted THEN "cgu"
  ELSE IF sub.email = "" \/ sub.username = <<>> \/ sub.name = "" \/ sub.password = ""
  THEN "missing"
  ELSE IF sub.username \in DOMAIN credentials THEN "taken"
  ELSE IF sub.password # sub.password_repeat THEN "mismatch"
  ELSE ""

\* if new_email in self.preauthorized["emails"]
RegisterPreauthError(r) ==
  IF r.preauthorization /\ r.email \notin Emails(preauthorized)
  THEN "notpreauthorized" ELSE ""

\* the validator calls of _register_credentials
RegisterValidationError(r) ==
  IF ~ValidateUsername(r.username) THEN "username"
  ELSE IF ~ValidateName(r.name) THEN "name"
  ELSE IF ~ValidateEmail(r.email) THEN "email"
  ELSE ""

\* self.credentials["usernames"][username] = {...}
RegisterInsert(r) ==
  [u \in DOMAIN credentials \cup {r.username} |->
     IF u = r.username
     THEN [name |-> r.name, password |-> HasherGenerate(r.password, r.salt),
           email |-> r.email]
     ELSE credentials[u]]

\* register_user, run from the submission to its return with no other
\* caller in between
RegisterUser(sub) ==
  LET r == Registration(sub)
      err == IF RegisterFormError(sub) # "" THEN RegisterFormError(sub)
             ELSE IF RegisterPreauthError(r) # "" THEN RegisterPreauthError(r)
             ELSE RegisterValidationError(r)
  IN /\ IF err # ""
        THEN /\ ret' = Raised("register_user", "RegisterError", err)
             /\ UNCHANGED <<credentials, preauthorized>>
        ELSE /\ credentials' = RegisterInsert(r)
             /\ preauthorized' = IF r.preauthorization
                                  THEN RemoveFirst(preauthorized, r.email)
                                  ELSE preauthorized
             /\ ret' = Returned("register_user")
     /\ UNCHANGED <<session_state, cookie, now, pc, reg>>

(***************************************************************************)
(* register_user run by several callers on one store: each caller moves    *)
(* through the handler one read or write of the store at a time.           *)
(*   pc[c]: "idle"; "l473", "l397", "l410": about to run that line;        *)
(*   "True": returned True; "RegisterError", "ValueError": raised.         *)
(***************************************************************************)
Running(c) == pc[c] \in {"l473", "l397", "l410"}

\* lines 462-471: the form checks and the lookup of the username
RegSubmit(c, sub) ==
  /\ ~Running(c)
  /\ IF RegisterFormError(sub) # ""
     THEN /\ pc' = [pc EXCEPT ![c] = "RegisterError"]
          /\ reg' = [reg EXCEPT ![c] = NoSubmission]
     ELSE /\ pc' = [pc EXCEPT ![c] = IF sub.preauthorization THEN "l473" ELSE "l397"]
          /\ reg' = [reg EXCEPT ![c] = Registration(sub)]
  /\ UNCHANGED <<credentials, preauthorized, session_state, cookie, now, ret>>

\* line 473: the lookup of the email in the preauthorized list
RegPreauth(c) ==
  /\ pc[c] = "l473"
  /\ IF RegisterPreauthError(reg[c]) # ""
     THEN /\ pc' = [pc EXCEPT ![c] = "RegisterError"]
          /\ reg' = [reg EXCEPT ![c] = NoSubmission]
     ELSE /\ pc' = [pc EXCEPT ![c] = "l397"]
          /\ UNCHANGED reg
  /\ UNCHANGED <<credentials, preauthorized, session_state, cookie, now, ret>>

\* lines 397-408 of _register_credentials: the validators and the insert
RegCredentials(c) ==
  /\ pc[c] = "l397"
  /\ IF RegisterValidationError(reg[c]) # ""
     THEN /\ pc' = [pc EXCEPT ![c] = "RegisterError"]
          /\ reg' = [reg EXCEPT ![c] = NoSubmission]
          /\ UNCHANGED credentials
     ELSE /\ credentials' = RegisterInsert(reg[c])
          /\ pc' = [pc EXCEPT ![c] = IF reg[c].preauthorization THEN "l410" ELSE "True"]
          /\ UNCHANGED reg
  /\ UNCHANGED <<preauthorized, session_state, cookie, now, ret>>

\* lines 409-410: list.remove raises ValueError when the email is gone
RegRemove(c) ==
  /\ pc[c] = "l410"
  /\ IF reg[c].email \in Emails(preauthorized)
     THEN /\ preauthorized' = RemoveFirst(preauthorized, reg[c].email)
          /\ pc' = [pc EXCEPT ![c] = "True"]
     ELSE /\ pc' = [pc EXCEPT ![c] = "ValueError"]
          /\ UNCHANGED preauthorized
  /\ UNCHANGED <<credentials, session_state, cookie, now, ret, reg>>

RaceNext ==
  \/ \E c \in Callers, sub \in Submissions : RegSubmit(c, sub)
  \/ \E c \in Callers : RegPreauth(c)
  \/ \E c \in Callers : RegCredentials(c)
  \/ \E c \in Callers : RegRemove(c)

\* the preauthorized list holds no email twice, so that only the
\* interleaving of two callers can admit two registrations on one email
RaceInit ==
  /\ Init
  /\ \A i, j \in DOMAIN preauthorized : i # j => preauthorized[i] # preauthorized[j]

RaceSpec == RaceInit /\ [][RaceNext]_vars

(***************************************************************************)
(* The store alone: the calls that write the credentials and the           *)
(* preauthorized list, one at a time, by whichever caller.                 *)
(***************************************************************************)
StoreNext ==
  \E sub \in Submissions : RegisterUser(sub)

StoreSpec == Init /\ [][StoreNext]_vars

(***************************************************************************)
(* reset_password                                                          *)
(***************************************************************************)
\* the checks of reset_password with the unchanged test before the others
ResetPasswordErrorUnchangedFirst(username, old, new, repeat) ==
  IF ~CheckCredentials(Lower(username), old) THEN "credentials"
  ELSE IF old = new THEN "unchanged"
  ELSE IF new = "" THEN "empty"
  ELSE IF new # repeat THEN "mismatch"
  ELSE ""

\* the checks of a submitted reset_password form, as nested in lines
\* 352-369: what is raised, or "" when the password is updated
ResetPasswordError(username, old, new, repeat) ==
  IF ~CheckCredentials(Lower(username), old) THEN "credentials"
  ELSE IF new = "" THEN "empty"
  ELSE IF new # repeat THEN "mismatch"
  ELSE IF old = new THEN "unchanged"
  ELSE ""

\* _update_password that stores the password as it was typed
UpdatePasswordPlain(username, password, salt) ==
  [credentials EXCEPT ![username].password = PlainStored(password)]

\* _update_password
UpdatePassword(username, password, salt) ==
  [credentials EXCEPT ![username].password = HasherGenerate(password, salt)]

\* reset_password(username): the form holds old, new and repeat
ResetPassword(username, old, new, repeat, salt, submitted) ==
  LET err == ResetPasswordError(username, old, new, repeat)
  IN /\ IF ~submitted
        THEN /\ ret' = Returned("reset_password")
             /\ UNCHANGED credentials
        ELSE IF err = "credentials"
        THEN /\ ret' = Raised("reset_password", "CredentialsError", err)
             /\ UNCHANGED credentials
        ELSE IF err # ""
        THEN /\ ret' = Raised("reset_password", "ResetError", err)
             /\ UNCHANGED credentials
        ELSE /\ credentials' = UpdatePassword(Lower(username), new, salt)
             /\ ret' = Returned("reset_password_submit")
     /\ UNCHANGED <<preauthorized, session_state, cookie, now, pc, reg>>

\* a form that passes the tests on the new password when the old one verifies
WellFormedReset(f) == f.new # "" /\ f.repeat = f.new /\ f.old # f.new

\* what the reset form submits: the old and the new password, the new one
\* repeated or not (no hash is drawn for a form that cannot pass)
ResetForms ==
  { f \in [username : UsernameInputs, old : PasswordInputs, new : PasswordInputs,
           repeat : PasswordInputs, salt : Salts] :
      /\ f.repeat = f.new \/ f.repeat = (IF f.new = "p2" THEN "p1" ELSE "p2")
      /\ WellFormedReset(f) \/ f.salt = 1 }

\* reset_password with the form f submitted
ResetPasswordSubmit(f) ==
  ResetPassword(f.username, f.old, f.new, f.repeat, f.salt, TRUE)

\* reset_password drawn with nothing submitted
ResetPasswordRender ==
  \E u \in UsernameInputs : ResetPassword(u, "", "", "", 1, FALSE)

(***************************************************************************)
(* forgot_password                                                         *)
(***************************************************************************)
\* what generate_random_pw() may return
RandomPasswords == {"r1", "r2"}

\* False in the place of a username
FalseU == <<"False">>

\* the tuple forgot_password returns
Triple(username, email, password) ==
  [username |-> username, email |-> email, password |-> password]

ReturnedTriple(triple) ==
  [op |-> "forgot_password", exc |-> "none", msg |-> "", val |-> triple]

\* _set_random_password: the store it leaves
SetRandomPassword(username, random_password, salt) ==
  [credentials EXCEPT ![username].password = HasherGenerate(random_password, salt)]

\* forgot_password that also has the cookie deleted when it sets a password
ForgotPasswordRevoking(input, random_password, salt, submitted) ==
  LET username == Lower(input)
      found == submitted /\ username \in DOMAIN credentials
  IN /\ ret' = IF ~submitted THEN ReturnedTriple(Triple(NoneU, NoneS, NoneS))
               ELSE IF Len(username) = 0
               THEN Raised("forgot_password", "ForgotError", "username")
               ELSE IF found
               THEN ReturnedTriple(Triple(username, credentials[username].email,
                                          random_password))
               ELSE ReturnedTriple(Triple(FalseU, NoneS, NoneS))
     /\ credentials' = IF found
                       THEN SetRandomPassword(username, random_password, salt)
                       ELSE credentials
     /\ cookie' = IF found THEN NoToken ELSE cookie
     /\ UNCHANGED <<preauthorized, session_state, now, pc, reg>>

\* forgot_password: the form holds input; random_password and salt are
\* what generate_random_pw and bcrypt.gensalt draw
ForgotPassword(input, random_password, salt, submitted) ==
  LET username == Lower(input)
  IN /\ IF ~submitted
        THEN /\ ret' = ReturnedTriple(Triple(NoneU, NoneS, NoneS))
             /\ UNCHANGED credentials
        ELSE IF Len(username) = 0
        THEN /\ ret' = Raised("forgot_password", "ForgotError", "username")
             /\ UNCHANGED credentials
        ELSE IF username \in DOMAIN credentials
        THEN /\ ret' = ReturnedTriple(Triple(username, credentials[username].email,
                                             random_password))
             /\ credentials' = SetRandomPassword(username, random_password, salt)
        ELSE /\ ret' = ReturnedTriple(Triple(FalseU, NoneS, NoneS))
             /\ UNCHANGED credentials
     /\ UNCHANGED <<preauthorized, session_state, cookie, now, pc, reg>>

(***************************************************************************)
(* update_user_details                                                     *)
(***************************************************************************)
\* the options of the selectbox "Champ"
Fields == {"Nom d'utilisateur", "Email"}

\* what the input "Nouvelle valeur" may hold
NewValues == {"", "Ann", "Bob", "B0b", "e1", "e2"}

\* the branch of an empty new value, past the last line of the file
UpdateEmptyError == Raised("update_user_details", "UpdateError", "empty")

\* self.credentials["usernames"][username][key] can be read
HasEntry(username, k) ==
  /\ username \in DOMAIN credentials
  /\ k \in DOMAIN credentials[username]

\* _update_entry
UpdateEntry(username, k, value) ==
  [credentials EXCEPT ![username] = [f \in DOMAIN @ \cup {k} |->
                                       IF f = k THEN value ELSE @[f]]]

\* update_user_details(username): the form holds field and new_value
UpdateUserDetails(username, field, new_value, submitted) ==
  LET u == Lower(username)
  IN /\ IF ~submitted
        THEN /\ ret' = Returned("update_user_details")
             /\ UNCHANGED <<credentials, session_state, cookie>>
        ELSE IF new_value = ""
        THEN /\ ret' = UpdateEmptyError
             /\ UNCHANGED <<credentials, session_state, cookie>>
        ELSE IF ~HasEntry(u, field)
        THEN /\ ret' = Raised("update_user_details", "KeyError", "")
             /\ UNCHANGED <<credentials, session_state, cookie>>
        ELSE IF new_value = credentials[u][field]
        THEN /\ ret' = Raised("update_user_details", "UpdateError", "unchanged")
             /\ UNCHANGED <<credentials, session_state, cookie>>
        ELSE /\ credentials' = UpdateEntry(u, field, new_value)
             /\ ret' = Returned("update_user_details_submit")
             /\ IF field = "name"
                THEN LET named == [session_state EXCEPT !.name = new_value]
                     IN /\ session_state' = named
                        /\ cookie' = TokenEncode(named, SetExpDate)
                ELSE UNCHANGED <<session_state, cookie>>
     /\ UNCHANGED <<preauthorized, now, pc, reg>>

(***************************************************************************)
(* The account calls: one store and one session on which the widgets of    *)
(* __init__.py run one call at a time.                                     *)
(***************************************************************************)
\* records the configuration file may hold, one of them with the hash of
\* the empty password
AccountConfigRecords ==
  ConfigRecords \cup
    { [name |-> "Ann", password |-> HasherGenerate("", 1), email |-> "e1"] }

AccountInit ==
  /\ \E items \in UNION { [1..n -> ConfigKeys \X AccountConfigRecords] :
                            n \in 0..MaxInitUsers } :
       /\ \A i, j \in DOMAIN items : i # j => items[i][1] # items[j][1]
       /\ credentials = LowerKeys(items)
  /\ preauthorized = <<>>
  /\ session_state = FreshSession
  /\ cookie = NoToken
  /\ now = 0
  /\ ret = Returned("__init__")
  /\ pc = [c \in Callers |-> "idle"]
  /\ reg = [c \in Callers |-> NoSubmission]

AccountNext ==
  \/ \E sub \in GoodSubmissions : RegisterUser(sub)
  \/ \E u \in UsernameInputs, p \in PasswordInputs, b \in BOOLEAN : Login(u, p, b)
  \/ Logout
  \/ NewSession
  \/ \E f \in ResetForms : ResetPasswordSubmit(f)
  \/ ResetPasswordRender
  \/ \E u \in UsernameInputs, r \in RandomPasswords, salt \in Salts, b \in BOOLEAN :
       ForgotPassword(u, r, salt, b)
  \/ \E u \in UsernameInputs, f \in Fields, v \in NewValues, b \in BOOLEAN :
       UpdateUserDetails(u, f, v, b)

AccountSpec == AccountInit /\ [][AccountNext]_vars

(***************************************************************************)
(* The passwords of the store: the calls that write a password hash, one   *)
(* at a time, by whichever caller.                                         *)
(***************************************************************************)
PasswordNext ==
  \/ \E sub \in GoodSubmissions : RegisterUser(sub)
  \/ \E f \in ResetForms : ResetPasswordSubmit(f)
  \/ ResetPasswordRender
  \/ \E u \in UsernameInputs, r \in RandomPasswords, salt \in Salts, b \in BOOLEAN :
       ForgotPassword(u, r, salt, b)

PasswordSpec == AccountInit /\ [][PasswordNext]_vars

(***************************************************************************)
(* The whole program, one call at a time.                                  *)
(***************************************************************************)
Next ==
  \/ Tick
  \/ \E sub \in Submissions : RegisterUser(sub)
  \/ \E tok \in ClientTokens : ClientCookie(tok)
  \/ \E u \in UsernameInputs, p \in PasswordInputs, b \in BOOLEAN : Login(u, p, b)
  \/ Logout
  \/ NewSession

Spec == Init /\ [][Next]_vars

(***************************************************************************)
(* Claims.                                                                 *)
(***************************************************************************)
status == session_state.authentication_status

\* a token that verifies under the configured key, carries the three
\* claims and expires in the future
ValidToken(tok) ==
  /\ JwtDecodes(tok)
  /\ tok.claims = ClaimNames
  /\ tok.exp_date > now

\* C1: every key of credentials["usernames"] equals its own lowercase form
\* and no two keys are equal when compared case-insensitively.
C1_KeysLowercaseUnique ==
  /\ \A u \in DOMAIN credentials : Lower(u) = u
  /\ \A u, v \in DOMAIN credentials : Lower(u) = Lower(v) => u = v

\* C2: of two callers registering the same new username at most one
\* succeeds, and the record of the one that succeeded stays in the store.
C2_OneWinnerPerUsername ==
  /\ \A c, d \in Callers :
       (c # d /\ pc[c] = "True" /\ pc[d] = "True")
         => reg[c].username # reg[d].username
  /\ \A c \in Callers :
       pc[c] = "True"
         => /\ reg[c].username \in DOMAIN credentials
            /\ credentials[reg[c].username] =
                 [name |-> reg[c].name,
                  password |-> HasherGenerate(reg[c].password, reg[c].salt),
                  email |-> reg[c].email]

\* the call of caller c is a gated registration that added its record
AddedGated(c) ==
  /\ pc[c] \in {"l410", "True", "ValueError"}
  /\ reg[c].preauthorization

\* C3: of two callers in gated registration with different usernames and
\* the same preauthorized email, at most one adds a user record.
C3_EmailConsumedOnce ==
  \A c, d \in Callers :
    (c # d /\ AddedGated(c) /\ AddedGated(d)
       /\ reg[c].username # reg[d].username)
      => reg[c].email # reg[d].email

\* the submission has the terms accepted and no empty field
Filled(sub) ==
  /\ sub.cgu_accepted
  /\ sub.email # "" /\ sub.username # <<>> /\ sub.name # "" /\ sub.password # ""

\* C4 as stated: a register_user submission whose username is already a
\* key fails with the username-taken error and leaves the store and the
\* preauthorized list unchanged.
C4_TakenAlways ==
  [][\A sub \in Submissions :
       (sub.username \in DOMAIN credentials /\ RegisterUser(sub))
         => /\ ret' = Raised("register_user", "RegisterError", "taken")
            /\ credentials' = credentials
            /\ preauthorized' = preauthorized]_vars

\* C4 amended: a submission whose username is already a key fails with a
\* RegisterError and leaves the store and the preauthorized list unchanged;
\* the error is the username-taken one when the terms are accepted and no
\* field is empty; a submission that just succeeded fails so when repeated.
C4_TakenWhenFilled ==
  [][(ret'.op = "register_user" /\ UNCHANGED <<session_state, cookie, now>>)
       => \A sub \in Submissions :
            /\ (sub.username \in DOMAIN credentials /\ RegisterUser(sub))
                 => /\ ret'.exc = "RegisterError"
                    /\ Filled(sub) => ret'.msg = "taken"
                    /\ credentials' = credentials
                    /\ preauthorized' = preauthorized
            /\ (ret'.exc = "none" /\ RegisterUser(sub))
                 => (RegisterFormError(sub) = "taken")']_vars

\* C4 witness: a registration has just failed on a taken username
C4_Witness ==
  /\ ret = Raised("register_user", "RegisterError", "taken")
  /\ credentials # <<>>

\* C5: gated registration succeeds only if the email is in the
\* preauthorized list, fails as not preauthorized and inserts nothing
\* otherwise, and a success leaves the email out of the list, so that no
\* later gated registration passes on that email.
C5_SingleUse ==
  [][\A sub \in Submissions :
       (sub.preauthorization /\ RegisterUser(sub))
         => /\ ret'.exc = "none" => sub.email \in Emails(preauthorized)
            /\ (RegisterFormError(sub) = "" /\ sub.email \notin Emails(preauthorized))
                 => /\ ret' = Raised("register_user", "RegisterError", "notpreauthorized")
                    /\ credentials' = credentials
            /\ ret'.exc = "none" => sub.email \notin Emails(preauthorized')]_vars

\* C6: a submitted username that is a store key, with the password that
\* matches its hash, in a session that is not Authenticated and holds no
\* valid cookie: the status becomes True, the name is the record's name and
\* the token of that username, that name and expiry now + cookie_expiry_days
\* goes to the cookie.
C6_LoginSuccess ==
  [][\A u \in UsernameInputs, p \in PasswordInputs :
       (/\ status # "True"
        /\ ~ValidToken(cookie)
        /\ CheckCredentials(u, p)
        /\ Login(u, p, TRUE))
         => /\ status' = "True"
            /\ session_state'.name = credentials[u].name
            /\ cookie' = JwtEncode(credentials[u].name, u, now + cookie_expiry_days, key)]_vars

\* the login call reaches the check of the submitted credentials
ReachesCredentials ==
  /\ status # "True"
  /\ CheckCookie(session_state, cookie).exc = "none"
  /\ CheckCookie(session_state, cookie).ss.authentication_status # "True"

\* C7: a submission that does not verify sets the status to False, sets no
\* cookie and leaves the session name unset.
C7_LoginFailure ==
  [][\A u \in UsernameInputs, p \in PasswordInputs :
       (ReachesCredentials /\ ~CheckCredentials(u, p) /\ Login(u, p, TRUE))
         => /\ status' = "False"
            /\ cookie' = cookie
            /\ session_state'.name = NoneS]_vars

C9_OnlyValidTokens ==
  [][(status # "True" /\ status' = "True")
       => \A u \in UsernameInputs, p \in PasswordInputs, b \in BOOLEAN :
            (Login(u, p, b) /\ ~(b /\ CheckCredentials(u, p)))
              => /\ JwtDecodes(cookie)
                 /\ cookie.exp_date > now]_vars

\* C9 witness: a session authenticated by a token one tick before its expiry
C9_Witness ==
  /\ status = "True"
  /\ session_state.name = "Bob"
  /\ cookie = JwtEncode("Bob", <<"b">>, now + 1, key)
  /\ ret.op = "login"

\* C10: whatever the cookie holds, login's cookie check raises nothing, and
\* unless the token is valid a call without submission leaves the status
\* and the name as they were.
C10_CookieCheckNeverRaises ==
  [][\A u \in UsernameInputs, p \in PasswordInputs, b \in BOOLEAN :
       (status # "True" /\ Login(u, p, b))
         => /\ ret'.exc = "none"
            /\ (~ValidToken(cookie) /\ ~b)
                 => /\ status' = status
                    /\ session_state'.name = session_state.name]_vars

\* the token a successful login of username u under display name n issued
\* at time t
IssuedAt(n, u, t) == JwtEncode(n, u, t + cookie_expiry_days, key)

\* C11: the token a successful login puts in the cookie is accepted by a
\* fresh session under the same key at once, and by any fresh session that
\* receives it before its expiry, and binds the username and the name that
\* were encoded.
C11_TokenRoundTrip ==
  [][/\ (status # "True" /\ status' = "True" /\ ret'.op = "login_submit")
          => LET cc == (CheckCookie(FreshSession, cookie))'
             IN /\ cc.exc = "none"
                /\ cc.ss.authentication_status = "True"
                /\ cc.ss.username = session_state'.username
                /\ cc.ss.name = session_state'.name
                /\ cookie'.exp_date = now + cookie_expiry_days
     /\ (session_state = FreshSession /\ ret'.op = "login")
          => \A n \in {"Ann", "Bob"}, u \in UsernameInputs, t \in 0..MaxTime :
               (cookie = IssuedAt(n, u, t) /\ t + cookie_expiry_days > now)
                 => /\ status' = "True"
                    /\ session_state'.username = u
                    /\ session_state'.name = n]_vars

\* C11 witness: a new session bound by the token of an earlier login of "A"
C11_Witness ==
  /\ status = "True"
  /\ ret = Returned("login")
  /\ cookie = IssuedAt("Ann", <<"A">>, now)
  /\ session_state.username = <<"A">>
  /\ session_state.name = "Ann"

\* C12: the logout button in an Authenticated session deletes the cookie,
\* clears the session's name and username and sets the status to None; the
\* login call that follows, with the cookie absent and no submission,
\* leaves the status None.
C12_Logout ==
  [][/\ (status = "True" /\ Logout)
          => /\ cookie' = NoToken
             /\ session_state'.name = NoneS
             /\ session_state'.username = NoneU
             /\ status' = "None"
     /\ (ret.op = "logout" /\ cookie = NoToken)
          => \A u \in UsernameInputs, p \in PasswordInputs :
               Login(u, p, FALSE) => status' = "None"]_vars

\* C12 witness: the login call after a logout has left the status None
C12_Witness ==
  /\ ret = Returned("login")
  /\ session_state.logout
  /\ status = "None"
  /\ cookie = NoToken

\* C13: a login call without a submission leaves a Rejected session
\* Rejected, whatever the cookie holds.
C13_NoExitFromRejected ==
  [][status = "False"
       => \A u \in UsernameInputs, p \in PasswordInputs :
            Login(u, p, FALSE) => status' = "False"]_vars

\* C14: a login call on an Authenticated session leaves it Authenticated
\* while its token has not expired, and no longer reports it Authenticated
\* once the expiry of its token has passed.
C14_AuthenticatedUntilExpiry ==
  [][(status = "True" /\ JwtDecodes(cookie) /\ cookie.claims = ClaimNames)
       => \A u \in UsernameInputs, p \in PasswordInputs, b \in BOOLEAN :
            Login(u, p, b)
              => IF cookie.exp_date > now
                 THEN status' = "True"
                 ELSE status' # "True"]_vars

\* the call just made is reset_password
ResetStep == ret'.op \in {"reset_password", "reset_password_submit"}

\* C15 as stated: a reset_password submission fails with a credentials
\* error if the old password does not verify, else with the unchanged error
\* if the new password equals the old one, else with the empty error if the
\* new password is empty, and every failure leaves the store unchanged.
C15_ResetFailuresUnchangedFirst ==
  [][ResetStep
       => \A f \in ResetForms :
            (f.repeat = f.new /\ ResetPasswordSubmit(f))
              => IF ~CheckCredentials(Lower(f.username), f.old)
                 THEN /\ ret' = Raised("reset_password", "CredentialsError", "credentials")
                      /\ credentials' = credentials
                 ELSE IF f.new = f.old
                 THEN /\ ret' = Raised("reset_password", "ResetError", "unchanged")
                      /\ credentials' = credentials
                 ELSE IF f.new = ""
                 THEN /\ ret' = Raised("reset_password", "ResetError", "empty")
                      /\ credentials' = credentials
                 ELSE TRUE]_vars

\* C15 amended: a reset_password submission fails with a credentials error
\* if the old password does not verify for the lowercased username, else
\* with the empty error if the new password is empty, else with the
\* mismatch error if the repetition differs, else with the unchanged error
\* if the new password equals the old one; every failure leaves the store
\* unchanged, and no other submission fails.
C15_ResetFailures ==
  [][ResetStep
       => \A f \in ResetForms :
            ResetPasswordSubmit(f)
              => /\ ret'.exc # "none" => credentials' = credentials
                 /\ IF ~CheckCredentials(Lower(f.username), f.old)
                    THEN ret' = Raised("reset_password", "CredentialsError", "credentials")
                    ELSE IF f.new = ""
                    THEN ret' = Raised("reset_password", "ResetError", "empty")
                    ELSE IF f.new # f.repeat
                    THEN ret' = Raised("reset_password", "ResetError", "mismatch")
                    ELSE IF f.new = f.old
                    THEN ret' = Raised("reset_password", "ResetError", "unchanged")
                    ELSE ret'.exc = "none"]_vars

\* C15 witness: the empty error was raised on a store where the empty
\* password verifies, so that the new password was empty and unchanged
C15_Witness ==
  /\ ret = Raised("reset_password", "ResetError", "empty")
  /\ \A u \in DOMAIN credentials : CheckCredentials(u, "")
  /\ credentials # <<>>

\* what a login submission of username and password comes to on the store,
\* in a session without cookie
LoginStatus(username, password) ==
  CheckCredentialsInplace(FreshSession, NoToken, username, password)
    .ss.authentication_status

\* C16: a reset_password submission for a username whose old password
\* verifies, with a new password that is not empty, repeated identically
\* and different from the old one, succeeds, and after a reset that
\* succeeded a login of that username is Authenticated with the new
\* password and Rejected with the old one.
C16_ResetSuccess ==
  [][ResetStep
       => \A f \in ResetForms :
            (WellFormedReset(f) /\ ResetPasswordSubmit(f))
              => /\ CheckCredentials(f.username, f.old) => ret'.exc = "none"
                 /\ ret'.exc = "none"
                      => /\ LoginStatus(f.username, f.new)' = "True"
                         /\ LoginStatus(f.username, f.old)' = "False"]_vars

\* the keys of the store that equal the username when letter case is ignored
KeysOf(username) == {k \in DOMAIN credentials : Lower(k) = Lower(username)}

\* the passwords a form can hold or the generator can draw
AllPasswords == PasswordInputs \cup RandomPasswords

\* C17: forgot_password without a submission returns (None, None, None) and
\* changes nothing; with a submitted username that is no key of the store,
\* letter case ignored, it returns (False, None, None) and leaves the store
\* unchanged; with a submitted username that is a key, letter case ignored,
\* it returns that key, the email of its record and a new plaintext, and
\* the hash of the record then verifies that plaintext and no other.
C17_ForgotPassword ==
  [][ret'.op = "forgot_password"
       => \A input \in UsernameInputs, r \in RandomPasswords, salt \in Salts,
             b \in BOOLEAN :
            (input # <<>> /\ ForgotPassword(input, r, salt, b))
              => IF ~b
                 THEN /\ ret' = ReturnedTriple(Triple(NoneU, NoneS, NoneS))
                      /\ credentials' = credentials
                 ELSE IF KeysOf(input) = {}
                 THEN /\ ret' = ReturnedTriple(Triple(FalseU, NoneS, NoneS))
                      /\ credentials' = credentials
                 ELSE \E k \in KeysOf(input) :
                        /\ ret' = ReturnedTriple(Triple(k, credentials[k].email, r))
                        /\ \A p \in AllPasswords :
                             CheckCredentials(k, p)' <=> p = r]_vars

\* the entry of a record that an option of the selectbox stands for
FieldKey(field) == IF field = "Email" THEN "email" ELSE "name"

\* the Validator accepts the value for the entry
ValidEntry(k, value) ==
  IF k = "email" THEN ValidateEmail(value) ELSE ValidateName(value)

\* C18: update_user_details for a user of the store and either option of
\* the selectbox: an empty value fails with the empty-value error, a value
\* equal to the current one with the unchanged error, a value the Validator
\* rejects is not written, and any other value is written to that entry of
\* that record and to nothing else, and the call succeeds.
C18_UpdateUserDetails ==
  [][ret'.op \in {"update_user_details", "update_user_details_submit"}
       => \A u \in DOMAIN credentials, f \in Fields, v \in NewValues :
            UpdateUserDetails(u, f, v, TRUE)
              => IF v = ""
                 THEN /\ ret' = UpdateEmptyError
                      /\ credentials' = credentials
                 ELSE IF v = credentials[u][FieldKey(f)]
                 THEN /\ ret' = Raised("update_user_details", "UpdateError", "unchanged")
                      /\ credentials' = credentials
                 ELSE IF ~ValidEntry(FieldKey(f), v)
                 THEN credentials' = credentials
                 ELSE /\ ret'.exc = "none"
                      /\ credentials' =
                           [credentials EXCEPT ![u] =
                              [k \in DOMAIN @ |-> IF k = FieldKey(f) THEN v ELSE @[k]]]]_vars

\* C19: when the user of an Authenticated session submits a new display
\* name that the Validator accepts and that differs from the current one,
\* update_user_details changes the name of the record, the session name
\* becomes the new name and a token carrying the new name and the expiry
\* now + cookie_expiry_days goes to the cookie.
C19_TokenRefreshOnRename ==
  [][(status = "True" /\ session_state.username \in DOMAIN credentials
        /\ ret'.op \in {"update_user_details", "update_user_details_submit"})
       => \A v \in NewValues :
            (/\ v # ""
             /\ ValidateName(v)
             /\ v # credentials[session_state.username].name
             /\ UpdateUserDetails(session_state.username, "Nom d'utilisateur", v, TRUE))
              => /\ credentials'[session_state.username].name = v
                 /\ session_state'.name = v
                 /\ cookie' = JwtEncode(v, session_state.username,
                                        now + cookie_expiry_days, key)]_vars

\* C20: for every key of the store and the password that verifies for it,
\* a login submission whose username differs from the key in letter case
\* at most reaches the record of that key and sets the status to True.
C20_CaseInsensitiveLogin ==
  [][ReachesCredentials
       => \A k \in DOMAIN credentials, u \in UsernameInputs, p \in PasswordInputs :
            (Lower(u) = Lower(k) /\ CheckCredentials(k, p) /\ Login(u, p, TRUE))
              => /\ status' = "True"
                 /\ session_state'.name = credentials[k].name]_vars

\* the password field of username was written by the step
PasswordWritten(username) ==
  \/ username \notin DOMAIN credentials
  \/ credentials'[username].password # credentials[username].password

\* C21: the password field that register_user, reset_password or
\* forgot_password writes to a record is the hasher's output for a password
\* of the form or of the generator, never a plaintext.
C21_NoPlaintextStored ==
  [][\A username \in DOMAIN credentials' :
       PasswordWritten(username)
         => /\ credentials'[username].password.fmt = "bcrypt"
            /\ \E p \in AllPasswords \ {""}, salt \in Salts :
                 credentials'[username].password = HasherGenerate(p, salt)]_vars

\* C21 witness: reset_password has just written the hash of "p2"
C21_Witness ==
  /\ ret = Returned("reset_password_submit")
  /\ \E username \in DOMAIN credentials, salt \in Salts :
       credentials[username].password = HasherGenerate("p2", salt)

\* C22: the session's name and username are set if the status is True and
\* are None if the status is None or False.
C22_IdentityIffAuthenticated ==
  IF status = "True"
  THEN session_state.name # NoneS /\ session_state.username # NoneU
  ELSE session_state.name = NoneS /\ session_state.username = NoneU

\* C23: a new session that finds a valid token is Authenticated as the
\* user of the token whatever the store holds by then, and the calls that
\* change a password leave the cookie and the session as they are.
C23_NoRevocationByStore ==
  [][/\ (session_state = FreshSession /\ ValidToken(cookie))
          => \A u \in UsernameInputs, p \in PasswordInputs, b \in BOOLEAN :
               Login(u, p, b)
                 => /\ status' = "True"
                    /\ session_state'.name = cookie.name
                    /\ session_state'.username = cookie.username
                    /\ cookie' = cookie
     /\ ret'.op \in {"reset_password", "reset_password_submit", "forgot_password"}
          => cookie' = cookie /\ session_state' = session_state]_vars

\* C23 witness: a session Authenticated by the token of "a" without a
\* submission, after forgot_password replaced the password of "a"
C23_Witness ==
  /\ status = "True"
  /\ ret = Returned("login")
  /\ ~session_state.logout
  /\ cookie = IssuedAt("Ann", <<"a">>, 0)
  /\ session_state.username = <<"a">>
  /\ \E r \in RandomPasswords : CheckCredentials(<<"a">>, r)

\* C24: in a session where logout has fired, every step of that session
\* leaves the logout flag set, and the status becomes True only by a login
\* submission whose credentials verify, whatever token the cookie holds.
C24_LogoutSticky ==
  [][(session_state.logout /\ ~NewSession)
       => /\ session_state'.logout
          /\ (status # "True" /\ status' = "True")
               => /\ ret'.op = "login_submit"
                  /\ \E u \in UsernameInputs, p \in PasswordInputs :
                       CheckCredentials(u, p) /\ Login(u, p, TRUE)]_vars

\* C24 witness: after a logout, a login call found a valid token in the
\* cookie and left the session unauthenticated
C24_Witness ==
  /\ session_state.logout
  /\ ValidToken(cookie)
  /\ status = "None"
  /\ ret = Returned("login")

\* the keys of the records a call on username is about: the key that is
\* the username itself, or else the keys equal to it but for letter case
Named(username) ==
  IF username \in DOMAIN credentials THEN {username} ELSE KeysOf(username)

\* no record but those of the keys in named differs after the step, and
\* no key has gone
OnlyRecords(named) ==
  /\ DOMAIN credentials \subseteq DOMAIN credentials'
  /\ \A k \in DOMAIN credentials' \ named :
       k \in DOMAIN credentials /\ credentials'[k] = credentials[k]

\* the records that were there differ after the step in these entries only
OnlyEntries(entries) ==
  \A k \in DOMAIN credentials :
    \A e \in DOMAIN credentials[k] \ entries :
      credentials'[k][e] = credentials[k][e]

\* C25: a register_user that succeeds adds the key of its username and
\* changes no record; reset_password and forgot_password change the
\* password entry of the record named by their username and nothing else;
\* update_user_details changes the chosen entry of the record named by its
\* username and nothing else; no call removes a key; login, logout and the
\* start of a session leave the store and the preauthorized list unchanged.
C25_StoreFrame ==
  [][/\ DOMAIN credentials \subseteq DOMAIN credentials'
     /\ ret'.op \in {"login", "login_submit", "logout", "__init__"}
          => UNCHANGED <<credentials, preauthorized>>
     /\ ret'.op = "register_user"
          => \A sub \in GoodSubmissions :
               (RegisterUser(sub) /\ ret'.exc = "none")
                 => /\ DOMAIN credentials' = DOMAIN credentials \cup {sub.username}
                    /\ sub.username \notin DOMAIN credentials
                    /\ OnlyRecords({sub.username})
     /\ ResetStep
          => \A f \in ResetForms :
               ResetPasswordSubmit(f)
                 => OnlyRecords(Named(f.username)) /\ OnlyEntries({"password"})
     /\ ret'.op = "forgot_password"
          => \A u \in UsernameInputs, r \in RandomPasswords, salt \in Salts :
               ForgotPassword(u, r, salt, TRUE)
                 => OnlyRecords(Named(u)) /\ OnlyEntries({"password"})
     /\ ret'.op \in {"update_user_details", "update_user_details_submit"}
          => \A u \in UsernameInputs, f \in Fields, v \in NewValues :
               UpdateUserDetails(u, f, v, TRUE)
                 => OnlyRecords(Named(u)) /\ OnlyEntries({FieldKey(f)})]_vars

====
